---- MODULE Spec2Model ----
(***************************************************************************)
(* ModelCheckpoint (deepctr_torch/callbacks.py): the per-epoch decision    *)
(* whether to save the model, and the save itself.                         *)
(*                                                                         *)
(* Python values are modelled as follows.                                  *)
(*   float / int   [kind, v]: "fin" (v the number), "inf" (v = 1 or -1),   *)
(*                 "nan"; None is kind "none".                             *)
(*   str (names)   sequences of one-character strings, so that the         *)
(*                 substring test of __init__ is computed.                 *)
(*   filepath      a sequence of tokens: literal text, the separator "/",  *)
(*                 a replacement field {name}; formatting turns a field    *)
(*                 into a "val" token carrying the value substituted.      *)
(*   logs          a function from names to floats.                        *)
(***************************************************************************)
EXTENDS Integers, Sequences, FiniteSets, TLC

\* ---------------------------------------------------------------- bounds
MaxCalls == 3
MaxPeriod == 2

\* ---------------------------------------------------------------- floats
Fin(n) == [kind |-> "fin", v |-> n]
PosInf == [kind |-> "inf", v |-> 1]
NegInf == [kind |-> "inf", v |-> -1]
NaN == [kind |-> "nan", v |-> 0]
None == [kind |-> "none", v |-> 0]

\* a < b on Python floats: false whenever either side is NaN
PyLt(a, b) ==
    IF a.kind = "nan" \/ b.kind = "nan" THEN FALSE
    ELSE IF a = b THEN FALSE
    ELSE IF a = NegInf \/ b = PosInf THEN TRUE
    ELSE IF a = PosInf \/ b = NegInf THEN FALSE
    ELSE a.v < b.v

\* a != b on Python floats: NaN differs from everything, itself included
PyNe(a, b) == a.kind = "nan" \/ b.kind = "nan" \/ a # b

\* builtin min(a, b): keeps the first argument unless the second is smaller
PyMin(a, b) == IF PyLt(b, a) THEN b ELSE a

\* builtin max(a, b): keeps the first argument unless the second is greater
PyMax(a, b) == IF PyLt(a, b) THEN b ELSE a

\* ----------------------------------------------------------------- names
\* the characters of a name
Chars(name) ==
    CASE name = "acc" -> <<"a", "c", "c">>
      [] name = "val_loss" -> <<"v", "a", "l", "_", "l", "o", "s", "s">>
      [] name = "val_acc" -> <<"v", "a", "l", "_", "a", "c", "c">>
      [] name = "epoch" -> <<"e", "p", "o", "c", "h">>

\* sub in s
Contains(sub, s) ==
    \E i \in 1..(Len(s) - Len(sub) + 1) : SubSeq(s, i, i + Len(sub) - 1) = sub

\* ------------------------------------------------------------- filepaths
Lit(text) == [t |-> "lit", s |-> text, v |-> None]
Sep == [t |-> "sep", s |-> "/", v |-> None]
Field(name) == [t |-> "ph", s |-> name, v |-> None]
Val(name, value) == [t |-> "val", s |-> name, v |-> value]

\* ""
EmptyTemplate == <<>>
\* "model_{epoch}.pt"
BareTemplate == <<Lit("model_"), Field("epoch"), Lit(".pt")>>
\* "ckpt/{epoch}_{val_loss}.pt"
DirTemplate ==
    <<Lit("ckpt"), Sep, Field("epoch"), Lit("_"), Field("val_loss"), Lit(".pt")>>

Templates == {EmptyTemplate, BareTemplate, DirTemplate}
Monitors == {"val_loss", "val_acc"}
Modes == {"auto", "min", "max"}
Periods == 0..MaxPeriod
\* the values a metric takes: two numbers (so that better, worse and equal all
\* occur) and NaN
MetricVals == {Fin(0), Fin(1), NaN}
MetricKeys == {"val_loss", "val_acc"}

\* the mappings a training loop may pass: any subset of the metric keys with
\* any values, and one mapping that carries an entry named "epoch"
MetricLogs == UNION {[ks -> MetricVals] : ks \in SUBSET MetricKeys}
LogsSet == MetricLogs \cup {[k \in {"epoch"} |-> Fin(0)]}

IOOutcomes == {"ok", "mkdir_fails", "save_fails"}

VARIABLES
    filepath, monitor, verbose, save_best_only, save_weights_only, period,
    epochs_since_last_save, best, monitor_op,
    model,      \* whether the driver has set self.model
    dirs,       \* the directories that exist
    mode,       \* the mode argument __init__ was given (it is not stored)
    calls,      \* number of on_epoch_end calls made so far
    failedAt,   \* the latest call whose _save_model raised (0: none has)
    last,       \* what the most recent on_epoch_end call did
    twin        \* a second policy constructed with the same arguments except
                \* verbose, given the same calls and the same file system answers

vars == <<filepath, monitor, verbose, save_best_only, save_weights_only, period,
          epochs_since_last_save, best, monitor_op, model, dirs, mode, calls,
          failedAt, last, twin>>

config == <<filepath, monitor, verbose, save_best_only, save_weights_only,
            period, monitor_op, mode>>

\* ------------------------------------------------------------- __init__
\* self.best if line 33 were left out: auto would keep +inf for every name
InitBestNoAccCase(md, mon) ==
    IF md = "auto" THEN PosInf
    ELSE IF md = "min" THEN PosInf ELSE NegInf

\* self.best (lines 27, 30-36)
InitBest(md, mon) ==
    IF md = "auto"
    THEN IF Contains(Chars("acc"), Chars(mon)) THEN NegInf ELSE PosInf
    ELSE IF md = "min" THEN PosInf ELSE NegInf

\* self.monitor_op (lines 28, 30-36)
InitMonitorOp(md, mon) ==
    IF md = "auto"
    THEN IF Contains(Chars("acc"), Chars(mon)) THEN "max" ELSE "min"
    ELSE IF md = "min" THEN "min" ELSE "max"

NoCall ==
    [epoch |-> -1, logs |-> <<>>, attempted |-> FALSE, raised |-> "none",
     resolved |-> FALSE, path |-> <<>>, current |-> None, saves |-> 0,
     wrote |-> FALSE, payload |-> "none", made |-> {}, msg |-> "none",
     prevBest |-> None, count |-> 0, repeated |-> FALSE,
     prevAttempted |-> FALSE]

\* the second policy after the same __init__ (lines 19-36)
NoCallTwin(md, mon) ==
    [count |-> 0, best |-> InitBest(md, mon), dirs |-> {}, raised |-> "none",
     path |-> <<>>, saves |-> 0, wrote |-> FALSE, msg |-> "none"]

\* __init__ stores its arguments unchecked; self.model is not set by it
Init ==
    /\ filepath \in Templates
    /\ monitor \in Monitors
    /\ verbose \in 0..1
    /\ save_best_only \in BOOLEAN
    /\ save_weights_only \in BOOLEAN
    /\ period \in Periods
    /\ epochs_since_last_save = 0
    /\ mode \in Modes
    /\ best = InitBest(mode, monitor)
    /\ monitor_op = InitMonitorOp(mode, monitor)
    /\ model = FALSE
    /\ dirs = {}
    /\ calls = 0
    /\ failedAt = 0
    /\ last = NoCall
    /\ twin = NoCallTwin(mode, monitor)

\* ---------------------------------------------------------- str.format
\* filepath.format(epoch=..., **logs): the exception it raises, if any
FormatError(template, logs) ==
    IF "epoch" \in DOMAIN logs THEN "TypeError"
    ELSE IF \E i \in 1..Len(template) :
               /\ template[i].t = "ph"
               /\ template[i].s \notin (DOMAIN logs \cup {"epoch"})
         THEN "KeyError"
         ELSE "none"

\* line 44 with epoch=epoch in place of epoch=epoch + 1: a zero-based file name
FormatZeroBased(template, epoch, logs) ==
    [i \in 1..Len(template) |->
        IF template[i].t = "ph"
        THEN Val(template[i].s,
                 IF template[i].s = "epoch" THEN Fin(epoch - 1)
                 ELSE logs[template[i].s])
        ELSE template[i]]

\* the formatted string, when no exception is raised
Format(template, epoch, logs) ==
    [i \in 1..Len(template) |->
        IF template[i].t = "ph"
        THEN Val(template[i].s,
                 IF template[i].s = "epoch" THEN Fin(epoch)
                 ELSE logs[template[i].s])
        ELSE template[i]]

\* ------------------------------------------------------------- os.path
RECURSIVE RStripSep(_)
RStripSep(p) ==
    IF p # <<>> /\ p[Len(p)].t = "sep" THEN RStripSep(SubSeq(p, 1, Len(p) - 1))
    ELSE p

\* os.path.dirname
Dirname(path) ==
    LET seps == {i \in 1..Len(path) : path[i].t = "sep"}
        cut == IF seps = {} THEN 0 ELSE CHOOSE i \in seps : \A j \in seps : j <= i
        head == SubSeq(path, 1, cut)
    IN  IF \A i \in 1..Len(head) : head[i].t = "sep" THEN head ELSE RStripSep(head)

\* the directories os.makedirs(d) leaves in existence
MakeDirs(d) ==
    {SubSeq(d, 1, i) : i \in {j \in 1..Len(d) :
                                /\ d[j].t # "sep"
                                /\ (j = Len(d) \/ d[j + 1].t = "sep")}}

\* ---------------------------------------------------------- _save_model
\* lines 65-73: what a call of _save_model(epoch, path) does
SaveModel(path, ds, hasModel, weightsOnly, io) ==
    LET directory == Dirname(path)
        missing == directory \notin ds
        nodir == [raised |-> "none", dirs |-> ds, made |-> {},
                  wrote |-> FALSE, payload |-> "none"]
    IN  IF missing /\ directory = <<>>
        THEN [nodir EXCEPT !.raised = "FileNotFoundError"]
        ELSE IF missing /\ io = "mkdir_fails"
        THEN [nodir EXCEPT !.raised = "OSError"]
        ELSE LET made == IF missing THEN MakeDirs(directory) \ ds ELSE {}
                 after == [nodir EXCEPT !.dirs = ds \cup made, !.made = made]
             IN  IF ~hasModel
                 THEN [after EXCEPT !.raised = "AttributeError"]
                 ELSE IF io = "save_fails"
                 THEN [after EXCEPT !.raised = "OSError"]
                 ELSE [after EXCEPT !.wrote = TRUE,
                                    !.payload = IF weightsOnly THEN "state_dict"
                                                ELSE "model"]

\* ---------------------------------------------------------- on_epoch_end
\* line 42 with > in place of >=
CadenceReachedLate(count, per) == count > per

\* line 42
CadenceReached(count, per) == count >= per

\* self.monitor_op(a, b)
MonitorOp(op, a, b) == IF op = "min" THEN PyMin(a, b) ELSE PyMax(a, b)

\* line 52 comparing against current instead of self.best, which lets a tie pass
ImprovedOrTie(op, current, bestv) == ~PyNe(MonitorOp(op, current, bestv), current)

\* line 52 with the test inverted
ImprovedInverted(op, current, bestv) == ~PyNe(MonitorOp(op, current, bestv), bestv)

\* line 52
Improved(op, current, bestv) == PyNe(MonitorOp(op, current, bestv), bestv)

\* logs.get(name)
Get(logs, name) == IF name \in DOMAIN logs THEN logs[name] ELSE None

\* lines 46-63 without the test of line 46: every policy compares
DecisionAlwaysCompares(bestOnly, op, current, bestv) ==
    IF current = None THEN "skipping"
    ELSE IF Improved(op, current, bestv) THEN "improved"
    ELSE "did_not_improve"

\* lines 46-63 without the test of line 48: a missing metric is compared too
DecisionNoNoneCheck(bestOnly, op, current, bestv) ==
    IF ~bestOnly THEN "saving"
    ELSE IF Improved(op, current, bestv) THEN "improved"
    ELSE "did_not_improve"

\* lines 46-63: the branch an attempted call takes once the path is resolved
Decision(bestOnly, op, current, bestv) ==
    IF ~bestOnly THEN "saving"
    ELSE IF current = None THEN "skipping"
    ELSE IF Improved(op, current, bestv) THEN "improved"
    ELSE "did_not_improve"

\* the branches that call self._save_model (lines 56, 63)
Persists(decision) == decision \in {"saving", "improved"}

\* self.best if the comparison were made before the path is formatted
BestAfterCompareFirst(ferr, decision, current, bestv, saveErr) ==
    IF decision = "improved" THEN current ELSE bestv

\* self.best if line 55 came after the _save_model of line 56
BestAfterSaveFirst(ferr, decision, current, bestv, saveErr) ==
    IF ferr = "none" /\ decision = "improved" /\ saveErr = "none"
    THEN current ELSE bestv

\* self.best after an attempted call: line 44 (which may raise ferr) runs before
\* the assignment of line 55, and line 55 before the _save_model of line 56
\* (which may raise saveErr)
BestAfter(ferr, decision, current, bestv, saveErr) ==
    IF ferr = "none" /\ decision = "improved" THEN current ELSE bestv

\* what is printed, when anything is (lines 49, 53, 58, 61)
Message(verb, kind) == IF verb > 0 THEN kind ELSE "none"

NoSave(ds) ==
    [raised |-> "none", dirs |-> ds, made |-> {}, wrote |-> FALSE,
     payload |-> "none"]

\* line 43 left out: the counter is never reset
CountAfterNoReset(attempt, count) == count

\* line 43 resetting to 1 in place of 0: the attempting call counts itself
CountAfterResetsToOne(attempt, count) == IF attempt THEN 1 ELSE count

\* self.epochs_since_last_save after the call (lines 40, 42-43)
CountAfter(attempt, count) == IF attempt THEN 0 ELSE count

\* line 44 moved above the test of line 42: every call formats the path
ResolveErrorBeforeCadence(attempt, template, logs) == FormatError(template, logs)

\* the exception of line 44, which runs only inside the branch of line 42
ResolveError(attempt, template, logs) ==
    IF attempt THEN FormatError(template, logs) ELSE "none"

\* lines 56 and 63 moved inside the `if self.verbose > 0:` blocks above them
SaveCalledWhenVerbose(verb, decision) == verb > 0 /\ Persists(decision)

\* whether _save_model is called: lines 56 and 63 stand after, not inside, the
\* `if self.verbose > 0:` blocks of lines 53 and 61
SaveCalled(verb, decision) == Persists(decision)

\* what a call computes before it saves (lines 40-52), for a policy with
\* verbosity verb, counter cnt and best value bestv
Evaluate(verb, cnt, bestv, epoch, logs) ==
    LET count == cnt + 1
        attempt == CadenceReached(count, period)
        ferr == ResolveError(attempt, filepath, logs)
        resolved == attempt /\ ferr = "none"
        current == Get(logs, monitor)
        decision == Decision(save_best_only, monitor_op, current, bestv)
    IN  [count |-> count, attempt |-> attempt, ferr |-> ferr,
         resolved |-> resolved,
         path |-> IF resolved THEN Format(filepath, epoch + 1, logs) ELSE <<>>,
         current |-> current, decision |-> decision,
         saving |-> resolved /\ SaveCalled(verb, decision),
         msg |-> IF resolved THEN Message(verb, decision) ELSE "none"]

\* lines 38-63, with the call of _save_model it makes; e and sv are each bound
\* once, to the values computed from the state the call starts in
OnEpochEnd(epoch, logs) ==
    /\ calls < MaxCalls
    /\ calls' = calls + 1
    /\ UNCHANGED <<config, model>>
    /\ \E e \in {Evaluate(verbose, epochs_since_last_save, best, epoch, logs)} :
       \E io \in IF e.saving THEN IOOutcomes ELSE {"ok"} :
       \E sv \in {IF e.saving
                  THEN SaveModel(e.path, dirs, model, save_weights_only, io)
                  ELSE NoSave(dirs)} :
       \E te \in {Evaluate(1 - verbose, twin.count, twin.best, epoch, logs)} :
       \E tsv \in {IF te.saving
                   THEN SaveModel(te.path, twin.dirs, model, save_weights_only, io)
                   ELSE NoSave(twin.dirs)} :
          /\ epochs_since_last_save' = CountAfter(e.attempt, e.count)
          /\ best' = IF e.attempt
                     THEN BestAfter(e.ferr, e.decision, e.current, best, sv.raised)
                     ELSE best
          /\ dirs' = sv.dirs
          /\ failedAt' = IF e.saving /\ sv.raised # "none"
                         THEN calls + 1 ELSE failedAt
          /\ last' =
                [epoch |-> epoch, logs |-> logs, attempted |-> e.attempt,
                 raised |-> IF e.ferr # "none" THEN e.ferr ELSE sv.raised,
                 resolved |-> e.resolved, path |-> e.path,
                 current |-> IF e.resolved /\ save_best_only
                             THEN e.current ELSE None,
                 saves |-> IF e.saving THEN 1 ELSE 0,
                 wrote |-> sv.wrote, payload |-> sv.payload,
                 made |-> sv.made,
                 msg |-> e.msg,
                 prevBest |-> best, count |-> e.count,
                 repeated |-> (calls > 0 /\ epoch = last.epoch
                                         /\ logs = last.logs),
                 prevAttempted |-> last.attempted]
          /\ twin' =
                [count |-> CountAfter(te.attempt, te.count),
                 best |-> IF te.attempt
                          THEN BestAfter(te.ferr, te.decision, te.current,
                                         twin.best, tsv.raised)
                          ELSE twin.best,
                 dirs |-> tsv.dirs,
                 raised |-> IF te.ferr # "none" THEN te.ferr ELSE tsv.raised,
                 path |-> te.path,
                 saves |-> IF te.saving THEN 1 ELSE 0,
                 wrote |-> tsv.wrote,
                 msg |-> te.msg]

\* the training driver sets self.model (read at lines 71, 73) before the
\* training loop starts
SetModel ==
    /\ calls = 0
    /\ ~model
    /\ model' = TRUE
    /\ UNCHANGED <<config, epochs_since_last_save, best, dirs, calls, failedAt,
                   last, twin>>

\* the training loop reports the next epoch (zero-based, one event per epoch)
EpochEnd == \E logs \in LogsSet : OnEpochEnd(last.epoch + 1, logs)

\* the driver repeats its previous call with identical arguments
RepeatEpochEnd == calls > 0 /\ OnEpochEnd(last.epoch, last.logs)

Next == EpochEnd \/ RepeatEpochEnd \/ SetModel

Spec == Init /\ [][Next]_vars

\* =================================================================== claims
Attempted == calls >= 1 /\ last.attempted

\* the call reached the comparison of line 52 with this monitored value
Compared == Attempted /\ last.resolved /\ save_best_only /\ last.current # None

\* a is strictly better than b in the direction of monitor_op
Better(a, b) == IF monitor_op = "min" THEN PyLt(a, b) ELSE PyLt(b, a)

\* C1: with a cadence N >= 1, the k-th call on a fresh policy makes an attempt
\* (and resets the counter) exactly when k mod N = 0, whatever the metrics, the
\* save policy and the outcome of earlier attempts were.
C1_AttemptEveryNth ==
    (period >= 1 /\ calls >= 1) =>
        /\ last.attempted <=> (calls % period = 0)
        /\ epochs_since_last_save = calls % period

\* the second call of a policy of cadence 2 attempts, the first did not
C1_Witness ==
    /\ period = 2
    /\ calls = 2
    /\ last.attempted
    /\ epochs_since_last_save = 0

\* the construction arguments are the ones the design allows
Configured == period >= 1 /\ filepath # EmptyTemplate

\* the filepath names a field that is neither epoch nor a key of the call's logs
Uncovered ==
    \E i \in 1..Len(filepath) :
        /\ filepath[i].t = "ph"
        /\ filepath[i].s # "epoch"
        /\ filepath[i].s \notin DOMAIN last.logs

\* the monitored value the latest call was given (None when it was given none)
Given == IF calls >= 1 THEN Get(last.logs, monitor) ELSE None

\* a == b on Python floats
PyEq(a, b) == ~PyNe(a, b)

\* C2 as stated: under only-if-improved, on every attempted call that carries the
\* monitored metric, a strictly better value becomes best_value and is persisted,
\* and a strictly worse one is not persisted and leaves best_value unchanged.
C2_Original ==
    (Configured /\ Attempted /\ save_best_only /\ Given # None) =>
        /\ Better(Given, last.prevBest) => (best = Given /\ last.saves = 1)
        /\ Better(last.prevBest, Given) => (best = last.prevBest /\ last.saves = 0)

\* C2, amended: the same on every attempted call whose path template resolves;
\* a call whose template does not resolve raises before the comparison is made.
C2_StrictComparison ==
    (Attempted /\ save_best_only /\ last.resolved /\ Given # None) =>
        /\ Better(Given, last.prevBest) => (best = Given /\ last.saves = 1)
        /\ Better(last.prevBest, Given) => (best = last.prevBest /\ last.saves = 0)

\* a finite value strictly better than a finite best_value replaced it and was saved
C2_Witness ==
    /\ Compared
    /\ last.prevBest.kind = "fin"
    /\ Better(Given, last.prevBest)
    /\ best = Given
    /\ last.saves = 1

\* C3 as stated: under only-if-improved a tie counts as improvement, so an
\* attempted call whose monitored value equals best_value persists the model.
C3_Original ==
    (Configured /\ failedAt = 0 /\ Compared /\ PyEq(Given, last.prevBest)) => last.saves = 1

\* C3, amended: a tie does not count as improvement; an attempted call whose
\* monitored value equals best_value persists nothing and leaves best_value as
\* it was.
C3_TieIsNoImprovement ==
    (Attempted /\ save_best_only /\ Given # None /\ PyEq(Given, last.prevBest)) =>
        /\ last.saves = 0
        /\ best = last.prevBest
        /\ last.msg \in {"none", "did_not_improve"}

\* a call compared a value equal to best_value and did not save
C3_Witness ==
    /\ Compared
    /\ PyEq(Given, last.prevBest)
    /\ last.raised = "none"
    /\ last.saves = 0

\* C4: under the always policy every attempted call whose path template resolves
\* persists exactly once, whatever the metrics mapping holds, and best_value
\* keeps its initial value.
C4_AlwaysPersists ==
    ~save_best_only =>
        /\ best = IF monitor_op = "min" THEN PosInf ELSE NegInf
        /\ (Attempted /\ last.resolved) => last.saves = 1
        /\ (calls >= 1 /\ last.saves = 1) => (Attempted /\ last.resolved)

\* an always-policy call without the monitored metric wrote the model
C4_Witness ==
    /\ ~save_best_only
    /\ Attempted
    /\ last.resolved
    /\ Given = None
    /\ last.saves = 1
    /\ last.wrote

\* C5 as stated: under only-if-improved, for every path template and every
\* mapping without the monitored metric, an attempted call does not raise,
\* persists nothing, leaves best_value unchanged and the counter reset to 0.
C5_Original ==
    (/\ Configured
     /\ Attempted
     /\ save_best_only
     /\ Given = None
     /\ "epoch" \notin DOMAIN last.logs) =>
        /\ last.raised = "none"
        /\ last.saves = 0
        /\ best = last.prevBest
        /\ epochs_since_last_save = 0

\* C5, amended: under only-if-improved, an attempted call whose mapping lacks the
\* monitored metric persists nothing, leaves best_value unchanged and the counter
\* reset to 0; it does not raise when its path template resolves, and raises the
\* path-resolution error when it does not.
C5_MissingMetricSkips ==
    (Attempted /\ save_best_only /\ Given = None) =>
        /\ last.saves = 0
        /\ ~last.wrote
        /\ best = last.prevBest
        /\ epochs_since_last_save = 0
        /\ last.resolved => last.raised = "none"
        /\ ~last.resolved => last.raised \in {"KeyError", "TypeError"}

\* a verbose only-if-improved call without the monitored metric announced the skip
C5_Witness ==
    /\ Attempted
    /\ save_best_only
    /\ Given = None
    /\ last.resolved
    /\ last.raised = "none"
    /\ last.msg = "skipping"

\* C6 as stated: on an attempted call path resolution fails exactly when the
\* template names a field that is neither epoch nor a key of the metrics mapping.
C6_Original ==
    (Configured /\ Attempted) => (~last.resolved <=> Uncovered)

\* C7 as stated: when an only-if-improved call carries an improving value and the
\* template cannot be resolved, the call raises the path-resolution error with
\* best_value already updated to the current value.
C7_Original ==
    (/\ Configured
     /\ Attempted
     /\ save_best_only
     /\ Given # None
     /\ Better(Given, last.prevBest)
     /\ Uncovered) =>
        /\ last.raised = "KeyError"
        /\ best = Given

\* C7, amended: path resolution precedes the comparison; an attempted call whose
\* template cannot be resolved raises the path-resolution error with best_value
\* unchanged, nothing persisted and the counter reset to 0.
C7_ResolutionFirst ==
    (Attempted /\ Uncovered) =>
        /\ last.raised \in {"KeyError", "TypeError"}
        /\ best = last.prevBest
        /\ last.saves = 0
        /\ epochs_since_last_save = 0

\* an improving value arrived with an unresolvable template: best_value stayed
C7_Witness ==
    /\ Attempted
    /\ save_best_only
    /\ Uncovered
    /\ Given # None
    /\ Better(Given, last.prevBest)
    /\ last.raised = "KeyError"
    /\ best = last.prevBest

\* C8: when the persist step of an attempted call raises, the error reaches the
\* caller, best_value keeps the value the call gave it and the counter stays 0;
\* the call makes no second save, and with a cadence N >= 1 the later calls
\* attempt exactly at N, 2N, ... calls after the failed one.
C8_FailedSaveNoRollback ==
    /\ (calls >= 1 /\ failedAt = calls) =>
          /\ last.raised \in {"OSError", "FileNotFoundError", "AttributeError"}
          /\ ~last.wrote
          /\ last.saves = 1
          /\ epochs_since_last_save = 0
          /\ best = IF save_best_only THEN Given ELSE last.prevBest
    /\ last.saves <= 1
    /\ (failedAt >= 1 /\ calls > failedAt /\ period >= 1) =>
          (last.attempted <=> ((calls - failedAt) % period = 0))

\* a save failed on the first call with best_value updated by it, and the call
\* one cadence later attempted and wrote the model
C8_Witness ==
    /\ save_best_only
    /\ period >= 1
    /\ failedAt = 1
    /\ calls = 1 + period
    /\ last.attempted
    /\ last.prevBest.kind = "fin"
    /\ last.wrote

\* C9 as stated: construction rejects an empty path template and a cadence below
\* 1, so no such policy ever receives an on_epoch_end call.
C9_Original == calls >= 1 => (period >= 1 /\ filepath # EmptyTemplate)

C11_Original ==
    (/\ Configured
     /\ calls >= 1
     /\ last.saves = 1
     /\ model
     /\ last.raised # "OSError") =>
        /\ last.wrote
        /\ last.raised = "none"

\* C12 as stated: a persist triggered before the model reference is attached
\* fails before any file system side effect: no directory is created and no file
\* is written.
C12_Original ==
    (Configured /\ calls >= 1 /\ last.saves = 1 /\ ~model) =>
        /\ last.raised # "none"
        /\ last.made = {}
        /\ ~last.wrote

\* C13: verbosity is advisory only: a policy that differs only in verbosity and
\* receives the same calls has the same counter and best value after every call
\* and performs the same persists to the same paths with the same outcome; and a
\* policy with verbosity disabled prints nothing on any call.
C13_VerbosityAdvisory ==
    /\ twin.count = epochs_since_last_save
    /\ twin.best = best
    /\ twin.dirs = dirs
    /\ twin.saves = last.saves
    /\ twin.path = last.path
    /\ twin.wrote = last.wrote
    /\ twin.raised = last.raised
    /\ verbose = 0 => last.msg = "none"
    /\ verbose # 0 => twin.msg = "none"

C13_Witness ==
    /\ calls = MaxCalls
    /\ verbose = 1
    /\ last.msg = "improved"
    /\ twin.msg = "none"
    /\ last.wrote
    /\ twin.wrote
    /\ failedAt \in 1..(calls - 1)

\* C14 as stated: for every cadence, when the driver repeats, with identical
\* arguments, a call on which the cadence triggered an attempt and reset the
\* counter, the repeat does not attempt a save again.
C14_Original ==
    (Configured /\ calls >= 2 /\ last.repeated /\ last.prevAttempted) =>
        /\ ~last.attempted
        /\ last.saves = 0

\* C14: for every cadence N >= 2, when the driver repeats, with identical
\* arguments, a call on which the cadence triggered an attempt and reset the
\* counter, the repeat starts a fresh window: it only counts 1 and attempts
\* nothing. (With cadence 1 every call attempts, the repeat included.)
C14_RepeatStartsFreshWindow ==
    (period >= 2 /\ calls >= 2 /\ last.repeated /\ last.prevAttempted) =>
        /\ ~last.attempted
        /\ last.saves = 0
        /\ last.path = <<>>
        /\ epochs_since_last_save = 1
        /\ best = last.prevBest

C14_Witness ==
    /\ period = 2
    /\ calls = 3
    /\ last.repeated
    /\ last.prevAttempted
    /\ filepath # EmptyTemplate
    /\ "val_loss" \in DOMAIN last.logs
    /\ epochs_since_last_save = 1

\* C15: with a cadence N >= 1 the counter seen between calls lies in [0, N)
\* after any sequence of calls, failed ones included, and it is 0 right after
\* every call that made an attempt.
C15_CounterRange ==
    period >= 1 =>
        /\ epochs_since_last_save >= 0
        /\ epochs_since_last_save < period
        /\ Attempted => epochs_since_last_save = 0

C15_Witness ==
    /\ period = 2
    /\ calls = 3
    /\ failedAt = 2
    /\ epochs_since_last_save = 1
    /\ last.count = 1

\* C16 as stated: every call either leaves best unchanged or sets it to the
\* extremum, in the direction of comparison, of the old best and the monitored
\* value of the call, so best never moves away from that extremum.
C16_Original ==
    (Configured /\ calls >= 1 /\ failedAt = 0) =>
        /\ \/ best = last.prevBest
           \/ /\ Given # None
              /\ best = MonitorOp(monitor_op, last.prevBest, Given)
        /\ ~Better(last.prevBest, best)

\* C17: a call whose incremented counter is below the cadence does nothing but
\* count: no path is resolved, nothing is persisted or created, no message is
\* printed, best is unchanged, and the call cannot raise.
C17_BelowCadenceOnlyCounts ==
    (calls >= 1 /\ last.count < period) =>
        /\ epochs_since_last_save = last.count
        /\ ~last.attempted
        /\ ~last.resolved
        /\ last.path = <<>>
        /\ last.saves = 0
        /\ ~last.wrote
        /\ last.made = {}
        /\ last.msg = "none"
        /\ last.raised = "none"
        /\ best = last.prevBest

C17_Witness ==
    /\ period = 2
    /\ last.count = 1
    /\ calls = 3
    /\ verbose = 1
    /\ save_best_only
    /\ "epoch" \in DOMAIN last.logs
    /\ best = Fin(0)
    /\ ~last.attempted

\* C18: every persist writes to the path obtained from the template by putting
\* the epoch index of this call plus one for the epoch placeholder and this
\* call's metric values for the metric placeholders, all other text unchanged.
C18_PathFromThisCall ==
    (calls >= 1 /\ last.saves = 1) =>
        /\ Len(last.path) = Len(filepath)
        /\ \A i \in 1..Len(filepath) :
              IF filepath[i].t # "ph"
              THEN last.path[i] = filepath[i]
              ELSE IF filepath[i].s = "epoch"
              THEN last.path[i] = Val("epoch", Fin(last.epoch + 1))
              ELSE /\ filepath[i].s \in DOMAIN last.logs
                   /\ last.path[i] =
                          Val(filepath[i].s, last.logs[filepath[i].s])

C18_Witness ==
    /\ calls = 2
    /\ filepath = DirTemplate
    /\ save_best_only
    /\ monitor = "val_loss"
    /\ last.epoch = 1
    /\ last.prevBest = Fin(0)
    /\ Get(last.logs, "val_loss") = Fin(1)
    /\ last.wrote

\* C19 as stated: under only-if-improved a call initiates a persist if and only
\* if it changes best, so that best is always the monitored value of the latest
\* initiated persist (or the initial infinity).
C19_Original ==
    (Configured /\ save_best_only /\ calls >= 1 /\ failedAt = 0) =>
        /\ last.saves = 1 <=> best # last.prevBest
        /\ last.saves = 1 => best = Given
====
